---- MODULE Spec2Model ----
(***************************************************************************)
(* sqlx-named-bind: named placeholders (":name") in front of sqlx/MySQL.   *)
(*                                                                         *)
(* A template is a sequence of one-character strings.  PreparedQuery::new  *)
(* and PreparedQueryAs::new scan it with the fixed pattern                 *)
(* ":[a-zA-Z0-9_]+", keep the matches in `order` and the text with every   *)
(* match replaced by "?" in `sql`.  execute / fetch_all / fetch_one /      *)
(* fetch_optional build a fresh sqlx query from `sql`, run the binder over *)
(* `order`, and hand the query to the executor.                            *)
(***************************************************************************)
EXTENDS Integers, Sequences, FiniteSets, TLC

\* ------------------------------------------------------------------ bounds
MaxLen == 4
MaxCalls == 2
MaxRows == 2

\* ------------------------------------------------------------ the alphabet
\* Representatives of the characters a template can hold: the colon, two
\* characters of the class [a-zA-Z0-9_], the positional marker and two
\* characters that are neither (a blank and a quote).
Chars == {":", "a", "_", "?", " ", "'"}

Templates == UNION {[1..n -> Chars] : n \in 0..MaxLen}

\* The templates the statements that get executed are made from: those
\* without a blank or a quote.
ExecTemplates == {t \in Templates : \A i \in 1..Len(t) : t[i] \notin {" ", "'"}}

\* ------------------------------------------------- the regex ":[a-zA-Z0-9_]+"
\* The fixed pattern: a lead character, a character class, and the least
\* number of class characters ("+" is one or more, greedy).
Pattern == [lead |-> ":", class |-> {"a", "_"}, least |-> 1]

\* Regex::new: the pattern compiles unless its class is empty or its
\* repetition is malformed.
RegexNew(p) == p.class # {} /\ p.least >= 0

\* A lazy repetition: the run stops after its first character.
RunEndLazy(p, t, j) == IF j < Len(t) /\ t[j + 1] \in p.class THEN j + 1 ELSE j

\* Last index of the longest run of class characters that starts after j.
RECURSIVE RunEnd(_, _, _)
RunEnd(p, t, j) ==
    IF j < Len(t) /\ t[j + 1] \in p.class THEN RunEnd(p, t, j + 1) ELSE j

\* The pattern matches at position i of t.
MatchAt(p, t, i) ==
    /\ t[i] = p.lead
    /\ RunEnd(p, t, i) - i >= p.least

\* Regex::find_iter: the leftmost, longest, non-overlapping matches, as
\* <<first, last>> index pairs, the search resuming after each match.
RECURSIVE FindIterFrom(_, _, _)
FindIterFrom(p, t, i) ==
    IF i > Len(t) THEN <<>>
    ELSE IF MatchAt(p, t, i)
         THEN <<<<i, RunEnd(p, t, i)>>>> \o FindIterFrom(p, t, RunEnd(p, t, i) + 1)
         ELSE FindIterFrom(p, t, i + 1)

find_iter(p, t) == FindIterFrom(p, t, 1)

\* Regex::replace_all: the text between the matches, with rep in the place
\* of each match.
RECURSIVE ReplaceFrom(_, _, _, _, _)
ReplaceFrom(t, ms, k, last, rep) ==
    IF k > Len(ms) THEN SubSeq(t, last, Len(t))
    ELSE SubSeq(t, last, ms[k][1] - 1) \o rep
            \o ReplaceFrom(t, ms, k + 1, ms[k][2] + 1, rep)

\* A replacement that drops the text after the last match.
replace_all_cut(p, t, rep) ==
    LET ms == find_iter(p, t)
    IN  IF ms = <<>> THEN t
        ELSE SubSeq(ReplaceFrom(t, ms, 1, 1, rep), 1,
                    Len(ReplaceFrom(t, ms, 1, 1, rep)) - (Len(t) - ms[Len(ms)][2]))

replace_all(p, t, rep) == ReplaceFrom(t, find_iter(p, t), 1, 1, rep)

\* Regex::replace: the first match only.
replace_first(p, t, rep) ==
    LET ms == find_iter(p, t)
    IN  IF ms = <<>> THEN t
        ELSE SubSeq(t, 1, ms[1][1] - 1) \o rep \o SubSeq(t, ms[1][2] + 1, Len(t))

\* ------------------------------------------------------------ builder.rs
\* Variants of build_query: with Regex::replace, and with a pattern that
\* also takes a colon alone.
build_query_first(template) == replace_first(Pattern, template, <<"?">>)

LoosePattern == [lead |-> ":", class |-> {"a", "_"}, least |-> 0]

build_query_loose(template) == replace_all(LoosePattern, template, <<"?">>)

\* build_query: Ok(template with every match replaced by "?").
build_query(template) == replace_all(Pattern, template, <<"?">>)

\* ------------------------------------------------- query.rs / query_as.rs
\* The first occurrence of each element, in order.
RECURSIVE Dedup(_)
Dedup(s) ==
    IF s = <<>> THEN <<>>
    ELSE LET front == Dedup(SubSeq(s, 1, Len(s) - 1))
             x == s[Len(s)]
         IN  IF \E i \in 1..Len(front) : front[i] = x THEN front
             ELSE Append(front, x)

\* A variant of the collection of order that keeps each name once.
placeholder_order_dedup(template) ==
    LET ms == find_iter(Pattern, template)
    IN  Dedup([k \in 1..Len(ms) |-> SubSeq(template, ms[k][1], ms[k][2])])

\* new: find_iter(&template).map(|m| m.as_str().to_owned()).collect()
placeholder_order(template) ==
    LET ms == find_iter(Pattern, template)
    IN  [k \in 1..Len(ms) |-> SubSeq(template, ms[k][1], ms[k][2])]

Ok(v) == [kind |-> "Ok", variant |-> "Ok", value |-> v]
Err(variant, e) == [kind |-> "Err", variant |-> variant, value |-> e]

\* A variant of new that refuses a colon that starts no placeholder.
new_result_strict(template) ==
    IF /\ RegexNew(Pattern)
       /\ \A i \in 1..Len(template) :
            template[i] = ":" => MatchAt(Pattern, template, i)
    THEN Ok([sql |-> build_query(template), order |-> placeholder_order(template)])
    ELSE Err("Parse", "regex")

\* new: both uses of Regex::new(...)? must succeed; then Ok(Self {sql, order, ..}).
new_result(template) ==
    IF RegexNew(Pattern)
    THEN Ok([sql |-> build_query(template), order |-> placeholder_order(template)])
    ELSE Err("Parse", "regex")

\* ------------------------------------------------------------- the state
VARIABLES
    pc,        \* "start", "idle", "binding", "awaiting"
    template,  \* the template given to new
    variant,   \* "Query" (PreparedQuery) or "QueryAs" (PreparedQueryAs)
    made,      \* what new returned
    sql,       \* the statement's sql field
    order,     \* the statement's order field
    kind,      \* the binder given to new and kept by the statement
    bcount,    \* the binder's captured state: its invocations so far
    op,        \* the operation in progress or last completed
    q,         \* the local builder of the call in progress
    idx,       \* the position of the loop over order
    log,       \* the keys the binder was invoked with in this call
    sent,      \* the last request handed to the executor
    nsent,     \* the number of requests handed to the executor
    rejected,  \* why the server refused the last request, or "none"
    produced,  \* the rows the query of the last request produced
    result,    \* what the last call returned
    calls,     \* the number of calls started
    other      \* a second, separate PreparedQuery, once it is constructed

\* The first statement and the calls on it.
first == <<pc, template, variant, made, sql, order, kind, bcount, op, q, idx,
           log, sent, nsent, rejected, produced, result, calls>>

vars == <<first, other>>

\* ------------------------------------------------------------- the binder
\* The binders of the crate's documentation and tests, by the names their
\* match arms recognize: every name, every name but ":a", or none
\* (`|q, _| q`).
BinderKinds == {"all", "not_a", "none"}

Recognized(b, key) ==
    CASE b = "all" -> TRUE
      [] b = "not_a" -> key # <<":", "a">>
      [] OTHER -> FALSE

\* A binder whose builder puts each new argument in front of the others.
binder_front(b, qb, key, count) ==
    IF Recognized(b, key)
    THEN [qb EXCEPT !.args = <<[name |-> key, gen |-> count]>> \o @]
    ELSE qb

\* One invocation binder(q, key): `q.bind(value)` in a recognized arm,
\* `_ => q` otherwise.  The bound value carries the name it was looked up
\* under and the closure's captured invocation counter.
binder(b, qb, key, count) ==
    IF Recognized(b, key)
    THEN [qb EXCEPT !.args = Append(@, [name |-> key, gen |-> count])]
    ELSE qb

\* --------------------------------------------------------- sqlx and MySQL
NoBuilder == [sql |-> <<>>, args |-> <<>>, live |-> FALSE]

NoRequest == [sql |-> <<>>, args |-> <<>>]

\* A builder that keeps the arguments of the request before it.
StaleBuilder(s) == [sql |-> s, args |-> sent.args, live |-> TRUE]

\* sqlx::query(sql) / sqlx::query_as(sql): a builder over sql with no
\* arguments bound.
FreshBuilder(s) == [sql |-> s, args |-> <<>>, live |-> TRUE]

RowVals == {"r1", "r2", "bad"}

RowSeqs == UNION {[1..n -> RowVals] : n \in 0..MaxRows}

Faults == {"none", "Io"}

RECURSIVE Count(_, _)
Count(s, c) ==
    IF s = <<>> THEN 0
    ELSE (IF s[1] = c THEN 1 ELSE 0) + Count(Tail(s), c)

RawOk(v) == [ok |-> TRUE, val |-> v]
RawErr(e) == [ok |-> FALSE, val |-> e]

\* What the server answers to a request before any row is read: the fault
\* of the connection, or a rejection when the number of arguments is not
\* the number of "?" markers of the statement.
Rejected(req, fault) ==
    IF fault # "none" THEN fault
    ELSE IF Len(req.args) # Count(req.sql, "?") THEN "ArgCount"
    ELSE "none"

\* FromRow::from_row for the result type R.
from_row(r) == IF r = "bad" THEN RawErr("ColumnDecode") ELSE RawOk(<<"R", r>>)

\* Query::execute: the rows are discarded, the outcome descriptor returned.
sqlx_execute(req, fault, rows) ==
    IF Rejected(req, fault) # "none" THEN RawErr(Rejected(req, fault))
    ELSE RawOk([rows_affected |-> Len(rows)])

\* QueryAs::fetch_all: every row decoded, in order; the first row that
\* does not decode fails the call.
sqlx_fetch_all(req, fault, rows) ==
    IF Rejected(req, fault) # "none" THEN RawErr(Rejected(req, fault))
    ELSE IF \E i \in 1..Len(rows) : ~from_row(rows[i]).ok
         THEN RawErr("ColumnDecode")
         ELSE RawOk([i \in 1..Len(rows) |-> from_row(rows[i]).val])

\* QueryAs::fetch_optional: the first row of the stream, decoded, or None;
\* rows after the first are not looked at.
sqlx_fetch_optional(req, fault, rows) ==
    IF Rejected(req, fault) # "none" THEN RawErr(Rejected(req, fault))
    ELSE IF rows = <<>> THEN RawOk(<<>>)
    ELSE IF from_row(rows[1]).ok THEN RawOk(<<from_row(rows[1]).val>>)
    ELSE RawErr("ColumnDecode")

\* QueryAs::fetch_one: fetch_optional, with None turned into RowNotFound.
sqlx_fetch_one(req, fault, rows) ==
    LET r == sqlx_fetch_optional(req, fault, rows)
    IN  IF ~r.ok THEN r
        ELSE IF r.val = <<>> THEN RawErr("RowNotFound")
        ELSE RawOk(r.val[1])

\* --------------------------------------------------------------- error.rs
\* A conversion that reports the server's argument-count rejection as the
\* declared unbound-placeholder error.
QuestionUnbound(r) ==
    IF r.ok THEN Ok(r.val)
    ELSE IF r.val = "ArgCount" THEN Err("UnboundPlaceholder", r.val)
    ELSE Err("Database", r.val)

\* A conversion that turns the engine's "no rows" into an empty success.
QuestionSwallow(r) ==
    IF r.ok THEN Ok(r.val)
    ELSE IF r.val = "RowNotFound" THEN Ok(<<>>)
    ELSE Err("Database", r.val)

\* `?` on a sqlx result: Error::Database(#[from] sqlx::Error).
Question(r) == IF r.ok THEN Ok(r.val) ELSE Err("Database", r.val)

\* ----------------------------------------------------- the state machine
NoResult == [kind |-> "None", variant |-> "None", value |-> <<>>]

\* The second statement before its construction.
NoOther == [pc |-> "absent", sql |-> <<>>, order |-> <<>>, kind |-> "none",
            bcount |-> 0, q |-> NoBuilder, idx |-> 0, log |-> <<>>,
            sent |-> NoRequest, result |-> NoResult, calls |-> 0]

\* Before new: the caller holds a template and a binder.
Start(ts) ==
    /\ pc = "start"
    /\ template \in ts
    /\ kind \in BinderKinds
    /\ variant = "none"
    /\ made = NoResult
    /\ sql = <<>>
    /\ order = <<>>
    /\ bcount = 0
    /\ op = "none"
    /\ q = NoBuilder
    /\ idx = 0
    /\ log = <<>>
    /\ sent = NoRequest
    /\ nsent = 0
    /\ rejected = "none"
    /\ produced = <<>>
    /\ result = NoResult
    /\ calls = 0
    /\ other = NoOther

Init == Start(ExecTemplates)

ParseInit == Start(Templates)

\* PreparedQuery::new / PreparedQueryAs::new (the two bodies are the same).
Construct(v) ==
    /\ pc = "start"
    /\ variant' = v
    /\ made' = new_result(template)
    /\ IF made'.kind = "Ok"
       THEN /\ sql' = made'.value.sql
            /\ order' = made'.value.order
            /\ pc' = "idle"
       ELSE /\ UNCHANGED <<sql, order>>
            /\ pc' = "failed"
    /\ UNCHANGED <<other, template, kind, bcount, op, q, idx, log, sent, nsent,
                   rejected, produced, result, calls>>

NewQuery == Construct("Query")

NewQueryAs == Construct("QueryAs")

\* A start of a call that does not need the statement to itself (`&self`).
BeginShared(o) ==
    /\ pc \in {"idle", "binding", "awaiting"}
    /\ calls < MaxCalls
    /\ calls' = calls + 1
    /\ op' = o
    /\ q' = FreshBuilder(sql)
    /\ idx' = 1
    /\ log' = <<>>
    /\ result' = NoResult
    /\ rejected' = "none"
    /\ produced' = <<>>
    /\ pc' = "binding"
    /\ UNCHANGED <<other, template, variant, made, sql, order, kind, bcount,
                   sent, nsent>>

\* The start of a call: the fields are borrowed and the builder is made
\* from the statement's own sql.
Begin(o) ==
    /\ pc = "idle"
    /\ calls < MaxCalls
    /\ calls' = calls + 1
    /\ op' = o
    /\ q' = FreshBuilder(sql)
    /\ idx' = 1
    /\ log' = <<>>
    /\ result' = NoResult
    /\ rejected' = "none"
    /\ produced' = <<>>
    /\ pc' = "binding"
    /\ UNCHANGED <<other, template, variant, made, sql, order, kind, bcount,
                   sent, nsent>>

Execute == variant = "Query" /\ Begin("execute")

FetchAll == variant = "QueryAs" /\ Begin("fetch_all")

FetchOne == variant = "QueryAs" /\ Begin("fetch_one")

FetchOptional == variant = "QueryAs" /\ Begin("fetch_optional")

\* A loop over the distinct names of order.
LoopDoneDistinct == idx > Cardinality({order[i] : i \in 1..Len(order)})

\* `for key in order.iter()` has no key left.
LoopDone == idx > Len(order)

\* A loop that walks order from its last entry to its first.
BindNextReversed ==
    /\ pc = "binding"
    /\ ~LoopDone
    /\ q' = binder(kind, q, order[Len(order) + 1 - idx], bcount)
    /\ bcount' = bcount + 1
    /\ log' = Append(log, order[Len(order) + 1 - idx])
    /\ idx' = idx + 1
    /\ UNCHANGED <<other, pc, template, variant, made, sql, order, kind, op, sent,
                   nsent, rejected, produced, result, calls>>

\* One iteration of the loop: q = binder(q, key).
BindNext ==
    /\ pc = "binding"
    /\ ~LoopDone
    /\ q' = binder(kind, q, order[idx], bcount)
    /\ bcount' = bcount + 1
    /\ log' = Append(log, order[idx])
    /\ idx' = idx + 1
    /\ UNCHANGED <<other, pc, template, variant, made, sql, order, kind, op, sent,
                   nsent, rejected, produced, result, calls>>

\* A dispatch that answers from a cache when the request is the one sent
\* before.
DispatchCached ==
    /\ pc = "binding"
    /\ LoopDone
    /\ sent' = [sql |-> q.sql, args |-> q.args]
    /\ nsent' = (IF nsent > 0 /\ sent = sent' THEN nsent ELSE nsent + 1)
    /\ q' = NoBuilder
    /\ pc' = "awaiting"
    /\ UNCHANGED <<other, template, variant, made, sql, order, kind, bcount, op, idx,
                   log, rejected, produced, result, calls>>

\* A dispatch that moves the statement's sql out with the builder.
DispatchTaking ==
    /\ pc = "binding"
    /\ LoopDone
    /\ sent' = [sql |-> q.sql, args |-> q.args]
    /\ nsent' = nsent + 1
    /\ q' = NoBuilder
    /\ sql' = <<>>
    /\ pc' = "awaiting"
    /\ UNCHANGED <<other, template, variant, made, order, kind, bcount, op, idx,
                   log, rejected, produced, result, calls>>

\* After the loop the builder is moved into the executor call.
Dispatch ==
    /\ pc = "binding"
    /\ LoopDone
    /\ sent' = [sql |-> q.sql, args |-> q.args]
    /\ nsent' = nsent + 1
    /\ q' = NoBuilder
    /\ pc' = "awaiting"
    /\ UNCHANGED <<other, template, variant, made, sql, order, kind, bcount, op, idx,
                   log, rejected, produced, result, calls>>

\* fetch_all ending in the call of fetch_optional's body.
OutcomeSwapped(o, req, fault, rows) ==
    CASE o = "execute" -> sqlx_execute(req, fault, rows)
      [] o = "fetch_one" -> sqlx_fetch_one(req, fault, rows)
      [] OTHER -> sqlx_fetch_optional(req, fault, rows)

\* What the sqlx call of the operation returns.
Outcome(o, req, fault, rows) ==
    CASE o = "execute" -> sqlx_execute(req, fault, rows)
      [] o = "fetch_all" -> sqlx_fetch_all(req, fault, rows)
      [] o = "fetch_one" -> sqlx_fetch_one(req, fault, rows)
      [] OTHER -> sqlx_fetch_optional(req, fault, rows)

\* The awaited sqlx call completes and the call returns Ok(...?).
Return ==
    /\ pc = "awaiting"
    /\ \E fault \in Faults, rows \in RowSeqs :
          /\ rejected' = Rejected(sent, fault)
          /\ produced' = (IF Rejected(sent, fault) = "none" THEN rows ELSE <<>>)
          /\ result' = Question(Outcome(op, sent, fault, rows))
    /\ pc' = "idle"
    /\ UNCHANGED <<other, template, variant, made, sql, order, kind, bcount, op, q,
                   idx, log, sent, nsent, calls>>

Next ==
    \/ NewQuery
    \/ NewQueryAs
    \/ Execute
    \/ FetchAll
    \/ FetchOne
    \/ FetchOptional
    \/ BindNext
    \/ Dispatch
    \/ Return

Spec == Init /\ [][Next]_vars

\* ------------------------------------------------- a second statement
\* The templates of the two statements that run side by side.
PairTemplates == {<<":", "a">>, <<":", "_", ":", "a">>}

PairInit == Start(PairTemplates)

\* PreparedQuery::new for the second statement.
OtherNew ==
    /\ other.pc = "absent"
    /\ \E t \in PairTemplates, b \in BinderKinds :
          /\ new_result(t).kind = "Ok"
          /\ other' = [NoOther EXCEPT !.pc = "idle",
                                      !.sql = new_result(t).value.sql,
                                      !.order = new_result(t).value.order,
                                      !.kind = b]
    /\ UNCHANGED first

\* PreparedQuery::execute on the second statement, up to the loop.
OtherExecute ==
    /\ other.pc = "idle"
    /\ other.calls < MaxCalls
    /\ other' = [other EXCEPT !.pc = "binding",
                              !.calls = @ + 1,
                              !.q = FreshBuilder(other.sql),
                              !.idx = 1,
                              !.log = <<>>,
                              !.result = NoResult]
    /\ UNCHANGED first

\* One iteration of its loop.
OtherBindNext ==
    /\ other.pc = "binding"
    /\ other.idx <= Len(other.order)
    /\ other' = [other EXCEPT
                    !.q = binder(other.kind, @, other.order[other.idx], other.bcount),
                    !.bcount = @ + 1,
                    !.log = Append(@, other.order[other.idx]),
                    !.idx = @ + 1]
    /\ UNCHANGED first

\* Its builder is moved into the executor call.
OtherDispatch ==
    /\ other.pc = "binding"
    /\ other.idx > Len(other.order)
    /\ other' = [other EXCEPT !.pc = "awaiting",
                              !.sent = [sql |-> other.q.sql, args |-> other.q.args],
                              !.q = NoBuilder]
    /\ UNCHANGED first

\* Its awaited sqlx call completes.
OtherReturn ==
    /\ other.pc = "awaiting"
    /\ \E fault \in Faults :
          other' = [other EXCEPT
                      !.pc = "idle",
                      !.result = Question(sqlx_execute(other.sent, fault, <<>>))]
    /\ UNCHANGED first

PairNext ==
    \/ Next
    \/ OtherNew
    \/ OtherExecute
    \/ OtherBindNext
    \/ OtherDispatch
    \/ OtherReturn

\* Two statements, their calls interleaved step by step.
PairSpec == PairInit /\ [][PairNext]_vars

\* Construction alone, over every template.
ParseNext ==
    \/ NewQuery
    \/ NewQueryAs

ParseSpec == ParseInit /\ [][ParseNext]_vars

TypeOK ==
    /\ pc \in {"start", "idle", "binding", "awaiting", "failed"}
    /\ template \in Templates
    /\ kind \in BinderKinds
    /\ variant \in {"none", "Query", "QueryAs"}
    /\ op \in {"none", "execute", "fetch_all", "fetch_one", "fetch_optional"}
    /\ calls \in 0..MaxCalls
    /\ nsent \in 0..calls
    /\ idx \in 0..(Len(order) + 1)
    /\ produced \in RowSeqs
    /\ result.kind \in {"None", "Ok", "Err"}

\* ================================================================ claims
\* The placeholder syntax, stated without the scan: the characters a name
\* is made of, the positions where a placeholder starts, and where the
\* placeholder that starts at i ends.
IdentChars == {"a", "_"}

PlaceholderStarts(t) ==
    {i \in 1..Len(t) : t[i] = ":" /\ i < Len(t) /\ t[i + 1] \in IdentChars}

PlaceholderEnd(t, i) ==
    CHOOSE j \in (i + 1)..Len(t) :
        /\ \A k \in (i + 1)..j : t[k] \in IdentChars
        /\ j = Len(t) \/ t[j + 1] \notin IdentChars

NthStart(t, k) ==
    CHOOSE i \in PlaceholderStarts(t) :
        Cardinality({j \in PlaceholderStarts(t) : j < i}) = k - 1

Occurrences(t) ==
    [k \in 1..Cardinality(PlaceholderStarts(t)) |->
        SubSeq(t, NthStart(t, k), PlaceholderEnd(t, NthStart(t, k)))]

Constructed == pc # "start"

\* C1 as stated: for every template, literal "?" included, the number of
\* "?" in the stored sql equals the length of order.
C1_MarkersEqualOrder ==
    Constructed => Count(sql, "?") = Len(order)

\* C1 (amended): the number of "?" in the stored sql is the length of
\* order plus the number of "?" the template already held; the two are
\* equal exactly for templates without a literal "?".
C1_MarkersEqualOrderPlusLiteral ==
    Constructed =>
        /\ made.kind = "Ok"
        /\ Count(sql, "?") = Len(order) + Count(template, "?")

C1_Witness ==
    /\ Constructed
    /\ Len(order) = 1
    /\ Count(template, "?") = 1
    /\ Count(sql, "?") = 2

\* C2: order is the sequence of placeholder occurrences of the template,
\* left to right, each verbatim with its colon, one entry per occurrence,
\* neither sorted nor deduplicated.
C2_OrderIsOccurrences ==
    Constructed => order = Occurrences(template)

C2_Witness ==
    /\ Constructed
    /\ template = <<":", "a", ":", "a">>
    /\ order = <<<<":", "a">>, <<":", "a">>>>

\* C3: a template without a colon-prefixed identifier is returned unchanged
\* by build_query, and the statement's order is empty.
C3_NoPlaceholderIdentity ==
    (Constructed /\ PlaceholderStarts(template) = {}) =>
        /\ build_query(template) = template
        /\ sql = template
        /\ order = <<>>

C3_Witness ==
    /\ Constructed
    /\ PlaceholderStarts(template) = {}
    /\ Len(template) = MaxLen
    /\ \E i \in 1..Len(template) : template[i] = ":"
    /\ sql = template

\* C10: new returns Ok for every template and binder; Error::Parse needs a
\* pattern that does not compile.
C10_ConstructionTotal ==
    Constructed =>
        /\ made.kind = "Ok"
        /\ pc # "failed"
        /\ made.value = [sql |-> sql, order |-> order]

C10_Witness ==
    /\ Constructed
    /\ made.kind = "Ok"
    /\ template = <<":", ":", " ", ":">>

\* ---------------------------------------------------------- the calls
\* The request of the call has been handed to the executor.
Dispatched == pc = "awaiting" \/ (pc = "idle" /\ calls > 0)

\* The call has returned.
Returned == pc = "idle" /\ calls > 0

\* The server ran the query of the call that returned.
Ran == Returned /\ rejected = "none"

\* The value a row decodes to.
Decoded(r) == <<"R", r>>

Decodes(r) == r # "bad"

\* C4: in every call the binder is invoked exactly Len(order) times, once
\* per occurrence, whether the engine call then succeeds or fails.
C4_BinderCallCount ==
    Dispatched => Len(log) = Len(order)

C4_Witness ==
    /\ Returned
    /\ result.kind = "Err"
    /\ order = <<<<":", "a">>, <<":", "a">>>>
    /\ Len(log) = 2

\* C5: fetch_one returns the decoded row only when the query produces
\* exactly one row, and returns an error for zero rows and for two or more.
C5_FetchOneCardinality ==
    (Ran /\ op = "fetch_one") =>
        /\ result.kind = "Ok" => Len(produced) = 1
        /\ Len(produced) = 0 => result.kind = "Err"
        /\ Len(produced) >= 2 => result.kind = "Err"

\* C6: fetch_optional returns None for zero rows, Some(decoded row) for
\* exactly one row, and an error for two or more rows.
C6_FetchOptionalCardinality ==
    (Ran /\ op = "fetch_optional") =>
        /\ Len(produced) = 0 => result = Ok(<<>>)
        /\ (Len(produced) = 1 /\ Decodes(produced[1])) =>
                result = Ok(<<Decoded(produced[1])>>)
        /\ Len(produced) >= 2 => result.kind = "Err"

\* C7: fetch_all returns every row the engine produced, decoded, in the
\* engine's order, and an empty sequence, not an error, for no rows.
C7_FetchAllRows ==
    (Ran /\ op = "fetch_all") =>
        /\ result.kind = "Ok" =>
              result.value = [i \in 1..Len(produced) |-> Decoded(produced[i])]
        /\ (\A i \in 1..Len(produced) : Decodes(produced[i])) =>
              result.kind = "Ok"
        /\ produced = <<>> => result = Ok(<<>>)

C7_Witness ==
    /\ Ran
    /\ op = "fetch_all"
    /\ produced = <<"r2", "r1">>
    /\ result = Ok(<<Decoded("r2"), Decoded("r1")>>)

\* The binder returns the builder unchanged for some name of order.
UnderBound == \E i \in 1..Len(order) : ~Recognized(kind, order[i])

\* C8: with a binder that passes some name of order through, the call
\* still hands the under-bound query to the engine and returns the
\* engine's rejection as Error::Database; nothing ever returns
\* Error::UnboundPlaceholder.
C8_UnboundSurfacesAsDatabase ==
    /\ made.variant # "UnboundPlaceholder"
    /\ result.variant # "UnboundPlaceholder"
    /\ (Dispatched /\ UnderBound) =>
          /\ nsent = calls
          /\ Len(sent.args) < Len(order)
    /\ (Returned /\ UnderBound) =>
          /\ rejected # "none"
          /\ result = Err("Database", rejected)

C8_Witness ==
    /\ Returned
    /\ UnderBound
    /\ Len(sent.args) = 1
    /\ Len(order) = 2
    /\ result = Err("Database", "ArgCount")

\* C9: every call starts from a builder without arguments over the stored
\* sql, so the request of a call holds only what the binder supplied
\* during that call, whatever earlier calls bound and however they ended.
C9_FreshBuilderPerCall ==
    /\ (pc = "binding" /\ idx = 1) => q = [sql |-> sql, args |-> <<>>, live |-> TRUE]
    /\ Dispatched =>
          /\ sent.sql = sql
          /\ Len(sent.args) <= Len(log)
          /\ \A i \in 1..Len(sent.args) :
                /\ sent.args[i].gen >= bcount - Len(log)
                /\ sent.args[i].gen < bcount

C9_Witness ==
    /\ calls = 2
    /\ Returned
    /\ Len(order) = 2
    /\ Len(sent.args) = 2
    /\ sent.args[1].gen = 2

\* C11: each call makes exactly one request to the executor, whether it
\* then succeeds or fails (no retry, no answer from a cache); new makes
\* none.
C11_OneRequestPerCall ==
    /\ calls = 0 => (nsent = 0 /\ sent = NoRequest)
    /\ pc = "binding" => nsent = calls - 1
    /\ Dispatched => nsent = calls

C11_Witness ==
    /\ Returned
    /\ calls = 2
    /\ nsent = 2
    /\ result.kind = "Err"
    /\ order = <<>>

\* The text of the template between its placeholders: Gap(t, 0) before the
\* first, Gap(t, k) after the k-th.
Gap(t, k) ==
    SubSeq(t,
           IF k = 0 THEN 1 ELSE PlaceholderEnd(t, NthStart(t, k)) + 1,
           IF k = Cardinality(PlaceholderStarts(t)) THEN Len(t)
           ELSE NthStart(t, k + 1) - 1)

\* Gap 0, piece 1, gap 1, ..., piece n, gap n.
RECURSIVE Interleave(_, _, _)
Interleave(t, pieces, k) ==
    IF k = 0 THEN Gap(t, 0)
    ELSE Interleave(t, pieces, k - 1) \o pieces[k] \o Gap(t, k)

\* C13: sql is the template with each placeholder occurrence replaced by
\* one "?" in place and every other character kept in order; putting
\* order[i] back for the i-th inserted marker gives the template again.
C13_ReplacementInPlace ==
    Constructed =>
        /\ sql = Interleave(template, [k \in 1..Len(order) |-> <<"?">>], Len(order))
        /\ template = Interleave(template, order, Len(order))

C13_Witness ==
    /\ Constructed
    /\ template = <<"?", ":", "a", " ">>
    /\ sql = <<"?", "?", " ">>

\* The colons of t that start no placeholder.
LoneColons(t) == {i \in 1..Len(t) : t[i] = ":" /\ i \notin PlaceholderStarts(t)}

\* C18: the scan is textual and maximal.  Every colon followed by a name
\* character starts a placeholder, between quotes and next to another
\* colon as anywhere else; a placeholder takes the whole run of name
\* characters, so no name character is left behind an inserted marker; a
\* colon followed by no name character stays in sql and adds no entry.
C18_TextualMaximalScan ==
    Constructed =>
        /\ Len(order) = Cardinality(PlaceholderStarts(template))
        /\ \A k \in 1..Len(order) :
              /\ Len(order[k]) >= 2
              /\ order[k][1] = ":"
              /\ \A j \in 2..Len(order[k]) : order[k][j] \in IdentChars
        /\ Count(sql, ":") = Cardinality(LoneColons(template))
        /\ Count(sql, "a") + Count(sql, "_") =
              Cardinality({i \in 1..Len(template) :
                  /\ template[i] \in IdentChars
                  /\ \A s \in PlaceholderStarts(template) :
                        ~(s < i /\ i <= PlaceholderEnd(template, s))})
        /\ Count(template, "?") = 0 =>
              \A i \in 1..(Len(sql) - 1) :
                  sql[i] = "?" => sql[i + 1] \notin IdentChars

C18_Witness ==
    /\ Constructed
    /\ template = <<"'", ":", "a", "'">>
    /\ order = <<<<":", "a">>>>
    /\ sql = <<"'", "?", "'">>

\* Another case of C18: a colon right before a placeholder.
C18_AdjacentReached ==
    /\ Constructed
    /\ template = <<":", ":", "a", "_">>
    /\ order = <<<<":", "a", "_">>>>
    /\ sql = <<":", "?">>

\* s is an initial part of t.
IsPrefix(s, t) == Len(s) <= Len(t) /\ s = SubSeq(t, 1, Len(s))

\* One step of a call, as C14 orders them: the call starts with the fresh
\* builder and no invocation; an invocation is for the next entry of order
\* and gets the builder left by the one before, which it hands on with at
\* most one more argument; the request is made once every entry has been
\* used and carries the builder of the last invocation.
C14_Step ==
    /\ calls' # calls =>
          /\ log' = <<>>
          /\ q' = [sql |-> sql, args |-> <<>>, live |-> TRUE]
    /\ log' # log /\ calls' = calls =>
          /\ log' = Append(log, order[Len(log) + 1])
          /\ nsent' = nsent
          /\ q.live /\ q'.live
          /\ q'.sql = q.sql
          /\ IsPrefix(q.args, q'.args)
          /\ Len(q'.args) <= Len(q.args) + 1
    /\ nsent' # nsent =>
          /\ log = order
          /\ log' = log
          /\ q.live
          /\ sent' = [sql |-> q.sql, args |-> q.args]

\* C14: within a call the binder is invoked with order[1], ..., order[n]
\* in that order, each time on the builder the invocation before returned,
\* and the dispatch comes after the last invocation with its builder.
C14_BinderSequence == [][C14_Step]_vars

C14_Witness ==
    /\ pc = "awaiting"
    /\ log = <<<<":", "a">>, <<":", "_">>>>
    /\ Len(sent.args) = 2
    /\ sent.args[1].name = <<":", "a">>
    /\ sent.args[2].name = <<":", "_">>

\* C15: with a binder that binds one value for every name, the arguments
\* of the request are the values of order[1], ..., order[n] in that order,
\* so the i-th marker of sql gets the value of the i-th placeholder
\* occurrence of the template.
C15_ArgumentsFollowOrder ==
    (Dispatched /\ kind = "all") =>
        /\ Len(sent.args) = Len(order)
        /\ \A i \in 1..Len(order) :
              /\ sent.args[i].name = order[i]
              /\ sent.args[i].name = Occurrences(template)[i]
              /\ sent.args[i].gen = bcount - Len(order) + i - 1
        /\ Count(template, "?") = 0 => Count(sent.sql, "?") = Len(sent.args)

C15_Witness ==
    /\ Returned
    /\ kind = "all"
    /\ template = <<":", "_", ":", "a">>
    /\ sent.sql = <<"?", "?">>
    /\ sent.args[1].name = <<":", "_">>
    /\ sent.args[2].name = <<":", "a">>
    /\ result.kind = "Ok"

\* C16: sql and order are fixed at construction; whatever calls were made
\* and however they ended, both are what new computed, and no step of a
\* call changes them or the binder the statement holds.
C16_Step ==
    /\ Constructed =>
          /\ sql' = sql
          /\ order' = order
          /\ kind' = kind
    /\ pc' # "start" =>
          /\ made'.kind = "Ok"
          /\ made'.value = [sql |-> sql', order |-> order']

C16_FieldsFixed == [][C16_Step]_vars

C16_Witness ==
    /\ Returned
    /\ calls = 2
    /\ result.kind = "Err"
    /\ bcount = 4
    /\ sql = <<"?", "?">>
    /\ made.value.sql = <<"?", "?">>

\* The failures sqlx reports.
SqlxErrors == {"Io", "ArgCount", "RowNotFound", "ColumnDecode"}

\* The failure of the engine in the call that returned, or "none": the
\* server's refusal, a row that does not decode among those the operation
\* reads, or no row where fetch_one needs one.
EngineFailure ==
    IF rejected # "none" THEN rejected
    ELSE IF op = "fetch_all" /\ \E i \in 1..Len(produced) : ~Decodes(produced[i])
         THEN "ColumnDecode"
    ELSE IF op \in {"fetch_one", "fetch_optional"} /\ produced # <<>>
            /\ ~Decodes(produced[1])
         THEN "ColumnDecode"
    ELSE IF op = "fetch_one" /\ produced = <<>> THEN "RowNotFound"
    ELSE "none"

\* C17: a call ends either in the engine's success value or in
\* Error::Database around the engine's failure as it was; a failure of the
\* engine, a missing row and a row that does not decode included, is never
\* dropped, never made a success and never reported as Error::Parse.
C17_EngineOutcomeWrapped ==
    Returned =>
        /\ result.kind \in {"Ok", "Err"}
        /\ result.kind = "Err" =>
              /\ result.variant = "Database"
              /\ result.value \in SqlxErrors
        /\ EngineFailure # "none" => result = Err("Database", EngineFailure)
        /\ EngineFailure = "none" => result.kind = "Ok"

C17_Witness ==
    /\ Returned
    /\ op = "fetch_one"
    /\ rejected = "none"
    /\ produced = <<>>
    /\ result = Err("Database", "RowNotFound")

\* Another case of C17: a row that does not decode.
C17_DecodeReached ==
    /\ Returned
    /\ op = "fetch_all"
    /\ produced = <<"r1", "bad">>
    /\ result = Err("Database", "ColumnDecode")

\* The names the arguments of a request were looked up under.
ArgNames(req) == [i \in 1..Len(req.args) |-> req.args[i].name]

\* A request made from a statement's own fields: its sql, and arguments
\* for names of its order, each tagged by its own binder during the call.
OwnRequest(req, s, ord, n) ==
    /\ req.sql = s
    /\ Len(req.args) <= Len(ord)
    /\ \A i \in 1..Len(req.args) :
          /\ \E j \in 1..Len(ord) : req.args[i].name = ord[j]
          /\ req.args[i].gen >= n - Len(ord) /\ req.args[i].gen < n

\* One step of two statements side by side, as C12 has it: a call starts
\* on a statement only when no call on it is in progress; a step of one
\* statement leaves everything of the other as it was; and a request holds
\* the sql and arguments of the statement it was made from.
C12_Step ==
    /\ calls' # calls => (pc = "idle" /\ calls' = calls + 1)
    /\ other'.calls # other.calls =>
          (other.pc = "idle" /\ other'.calls = other.calls + 1)
    /\ pc \in {"binding", "awaiting"} =>
          (op' = op /\ calls' = calls /\ IsPrefix(log, log'))
    /\ other.pc \in {"binding", "awaiting"} => IsPrefix(other.log, other'.log)
    /\ other' # other => first' = first
    /\ first' # first => other' = other
    /\ nsent' # nsent => OwnRequest(sent', sql, order, bcount)
    /\ other'.sent # other.sent =>
          OwnRequest(other'.sent, other.sql, other.order, other.bcount)

\* C12: calls on one statement are strictly sequential, and calls on
\* separate statements interleave without touching each other's sql, order
\* or bound arguments.
C12_SequentialPerStatement == [][C12_Step]_vars

C12_Witness ==
    /\ pc = "binding"
    /\ idx = 2
    /\ Len(order) = 2
    /\ other.pc = "binding"
    /\ other.idx = 2
    /\ Len(other.order) = 1
    /\ calls = 2
    /\ other.calls = 2

====
